---- MODULE Spec2Model ----
(***************************************************************************)
(* WalkPlayer: the BatchScheduledPlayer of src/app.js and the UI handlers  *)
(* that drive it.                                                          *)
(*                                                                         *)
(* Time is counted in centiseconds (0.01 s), so that the lead times 0.18 s *)
(* and 0.05 s, the seek epsilon 0.05 s and the 3 s threshold of prev() are *)
(* the integers 18, 5, 5 and 300.                                          *)
(*                                                                         *)
(* JavaScript runs one handler at a time.  An async method runs until an   *)
(* await whose promise is settled by I/O (fetch/decode, ctx.resume(),      *)
(* ctx.suspend()); only there can another handler run.  An await of a      *)
(* promise that is already settled (ensureContext(), a cache hit in        *)
(* loadDecodedBuffer) resumes from the microtask queue before any other    *)
(* handler, so the method goes on within the same step.  Every method is   *)
(* an operator from the program state w to the program state it leaves at  *)
(* its next suspension (or at its end).                                    *)
(***************************************************************************)
EXTENDS Integers, Sequences, FiniteSets

\* ---- bounds of the model
MaxSongs == 2
MaxBatch == 1
MaxClock == 500
MaxOps == 3
MaxCacheSongs == 9
MaxQueryLen == 2

\* ---- program constants (centiseconds where they are times)
LeadTime == 18
SeekLead == 5
SeekEpsilon == 5
PrevThreshold == 300
DefaultBatchSize == 5
DefaultMaxCached == 8
SeekStep == 500
MetadataLead == 5
MaxPlaylist == 999
Infinity == 1000000

Tasks == {1, 2}

VARIABLES songs, idx, ctx, clock, isPlaying, isLoading, batchSize, scheduled,
          bufferCache, cacheOrder, maxCached, task, ctl, ev, ops, lastStarted,
          resident, cacheEv, view, replaced, wall, metadataTimers, timerEv

vars == <<songs, idx, ctx, clock, isPlaying, isLoading, batchSize, scheduled,
          bufferCache, cacheOrder, maxCached, task, ctl, ev, ops, lastStarted,
          resident, cacheEv, view, replaced, wall, metadataTimers, timerEv>>

Min(a, b) == IF a < b THEN a ELSE b

Max(a, b) == IF a > b THEN a ELSE b

\* buildSongs(count): the files /songs/01.mp3 .. /songs/<count>.mp3, named by number
buildSongs(count) == [i \in 1..count |-> i]

\* buffer.duration of the decoded file: 4 s, 6 s, 2 s, 4 s, ...
Duration(url) == 200 * (1 + (url % 3))

\* The slot of a handler: pc is where it is suspended, the fields up to call are
\* the arguments and locals of the methods it runs.  The others are history: id
\* numbers the handlers in the order they start, solo is true while no other
\* handler has run since it started, steady while neither the playlist nor the batch
\* size was changed under it, schedClock is the clock when it scheduled, pre is
\* what it found when it started (kept while it is solo), val is the batch size a
\* batch-size handler was given.  The variable replaced (history) is true from a
\* replacement of the playlist until the next handler starts.
NoPre == [clock |-> 0, scheduled |-> <<>>, idx |-> 0, isPlaying |-> FALSE,
          ctx |-> "none", songs |-> <<>>, batchSize |-> 0, isLoading |-> FALSE]

IdleTask == [pc |-> "idle", op |-> "none", startIndex |-> 0, autostart |-> FALSE,
             indices |-> <<>>, buffers |-> <<>>, url |-> 0,
             positionSeconds |-> 0, songIdx |-> 0, offset |-> 0, t |-> 0,
             slots |-> 0, i |-> 0, nextIdx |-> 0,
             deltaSeconds |-> 0, p |-> [pos |-> 0, dur |-> 0], call |-> "none",
             id |-> 0, solo |-> FALSE, steady |-> FALSE, schedClock |-> 0,
             pre |-> NoPre, val |-> 0]

NoEv == [kind |-> "none", rec |-> IdleTask]

\* What the step being taken did with the cache (history): ins is the key it
\* inserted, evicted the entries the insertion shifted off cacheOrder, hit the keys
\* it found cached, with cacheOrder and bufferCache as they were at the last hit,
\* fetch the key whose fetch it started.  Keys are the numbers 1, 2, ...; 0 is none.
NoCacheEv == [ins |-> 0, evicted |-> <<>>, hit |-> {}, order |-> <<>>, cache |-> {},
              fetch |-> 0]

\* what render() last drew: the progress bar (ratio as a fraction num/den, position
\* and duration), the batch position and total, the track marked active
NoView == [ratio |-> [num |-> 0, den |-> 1], pos |-> 0, dur |-> 0, index |-> 0,
           batchPos |-> 0, batchDur |-> 0, drawn |-> FALSE]

\* What the timer callback that has just run did (history): announced is whether
\* it set the metadata of track index, startTime and by name the segment the timer
\* was armed for, clock is the audio clock when it ran.
NoTimerEv == [fired |-> FALSE, announced |-> FALSE, index |-> 0, startTime |-> 0,
              by |-> 0, clock |-> 0]

\* the program state as one record; ev is the event of the step being taken
Cur == [songs |-> songs, idx |-> idx, ctx |-> ctx, clock |-> clock,
        isPlaying |-> isPlaying, isLoading |-> isLoading, batchSize |-> batchSize,
        scheduled |-> scheduled, bufferCache |-> bufferCache,
        cacheOrder |-> cacheOrder, maxCached |-> maxCached, task |-> task,
        ctl |-> ctl, ev |-> NoEv, ops |-> ops, lastStarted |-> lastStarted,
        resident |-> resident, cacheEv |-> NoCacheEv, view |-> view,
        replaced |-> replaced, wall |-> wall, metadataTimers |-> metadataTimers,
        timerEv |-> NoTimerEv]

Apply(w) ==
    /\ songs' = w.songs
    /\ idx' = w.idx
    /\ ctx' = w.ctx
    /\ clock' = w.clock
    /\ isPlaying' = w.isPlaying
    /\ isLoading' = w.isLoading
    /\ batchSize' = w.batchSize
    /\ scheduled' = w.scheduled
    /\ bufferCache' = w.bufferCache
    /\ cacheOrder' = w.cacheOrder
    /\ maxCached' = w.maxCached
    /\ task' = w.task
    /\ ctl' = w.ctl
    /\ ev' = w.ev
    /\ ops' = w.ops
    /\ lastStarted' = w.lastStarted
    /\ resident' = w.resident
    /\ cacheEv' = w.cacheEv
    /\ view' = w.view
    /\ replaced' = w.replaced
    /\ wall' = w.wall
    /\ metadataTimers' = w.metadataTimers
    /\ timerEv' = w.timerEv

\* ---- the handler slots

Idle(t) == task[t].pc = "idle"

\* no handler is in flight
Quiet == \A t \in Tasks : Idle(t)

\* a new handler runs in the first free slot
FreeSlot(t) == ops < MaxOps /\ Idle(t) /\ \A u \in Tasks : u < t => ~Idle(u)

\* what a handler that runs alone finds when it is called
Snapshot == [clock |-> clock, scheduled |-> scheduled, idx |-> idx,
             isPlaying |-> isPlaying, ctx |-> ctx, songs |-> songs,
             batchSize |-> batchSize, isLoading |-> isLoading]

\* handler t starts while others are in flight: they no longer run alone
Overlap(w, t) ==
    [w EXCEPT !.task = [u \in Tasks |->
        IF u = t \/ w.task[u].pc = "idle" THEN w.task[u]
        ELSE [w.task[u] EXCEPT !.solo = FALSE, !.pre = NoPre]]]

\* the playlist or the batch size changes under the handlers in flight (but t)
Disturb(w, t) ==
    [w EXCEPT !.task = [u \in Tasks |->
        IF u = t \/ w.task[u].pc = "idle" THEN w.task[u]
        ELSE [w.task[u] EXCEPT !.solo = FALSE, !.steady = FALSE, !.pre = NoPre]]]

\* handler t starts operation op
Begin(t, op) ==
    LET solo == \A v \in Tasks : Idle(v) IN
    [Overlap(Cur, t) EXCEPT !.ops = @ + 1,
                            !.replaced = FALSE,
                            !.task[t] = [IdleTask EXCEPT !.pc = "run", !.op = op,
                                            !.id = ops + 1,
                                            !.solo = solo,
                                            !.steady = TRUE,
                                            !.pre = IF solo THEN Snapshot ELSE NoPre]]

\* the method returns (kind "done"), returns early ("ignored") or rejects ("fail")
finish(w, t, kind) ==
    [w EXCEPT !.task[t] = IdleTask, !.ev = [kind |-> kind, rec |-> w.task[t]]]

\* await this.ctx.resume() / await this.ctx.suspend(): the control message is queued
awaitCtl(w, t, pc) == [w EXCEPT !.task[t].pc = pc, !.ctl = Append(@, t)]

\* ---- BatchScheduledPlayer

\* new AudioContext: the platform starts it running or leaves it suspended (st)
ensureContext(w, st) == IF w.ctx = "none" THEN [w EXCEPT !.ctx = st] ELSE w

stopAllScheduled(w) == [w EXCEPT !.scheduled = <<>>]

\* the index in segs of the segment getCurrent() returns, 0 for null
getCurrent(c, segs, now) ==
    IF c = "none" \/ Len(segs) = 0 THEN 0
    ELSE IF \E j \in 1..Len(segs) : now >= segs[j].startTime /\ now < segs[j].endTime
         THEN CHOOSE j \in 1..Len(segs) :
                /\ now >= segs[j].startTime /\ now < segs[j].endTime
                /\ \A h \in 1..(j - 1) :
                     ~(now >= segs[h].startTime /\ now < segs[h].endTime)
         ELSE Len(segs)

\* clamp01(x) of a fraction x = num/den, den > 0
clamp01(x) == [num |-> Min(x.den, Max(0, x.num)), den |-> x.den]

\* getProgress with the ratio not clamped
getProgress_noClamp(c, segs, now, cursor) ==
    LET cur == getCurrent(c, segs, now) IN
    IF cur = 0
    THEN [ratio |-> [num |-> 0, den |-> 1], pos |-> 0, dur |-> 0, index |-> cursor]
    ELSE LET pos == segs[cur].startOffset + Max(0, now - segs[cur].startTime)
             dur == segs[cur].duration
         IN [ratio |-> IF dur > 0 THEN [num |-> pos, den |-> dur]
                       ELSE [num |-> 0, den |-> 1],
             pos |-> pos, dur |-> dur, index |-> segs[cur].index]

getProgress(c, segs, now, cursor) ==
    LET cur == getCurrent(c, segs, now) IN
    IF cur = 0
    THEN [ratio |-> [num |-> 0, den |-> 1], pos |-> 0, dur |-> 0, index |-> cursor]
    ELSE LET pos == segs[cur].startOffset + Max(0, now - segs[cur].startTime)
             dur == segs[cur].duration
         IN [ratio |-> IF dur > 0 THEN clamp01([num |-> pos, den |-> dur])
                       ELSE [num |-> 0, den |-> 1],
             pos |-> pos, dur |-> dur, index |-> segs[cur].index]

\* batchLoop that leaves out the startOffset of the segment being played
RECURSIVE batchLoop_noOffset(_, _, _, _)
batchLoop_noOffset(segs, j, now, acc) ==
    IF j > Len(segs) THEN acc
    ELSE LET seg == segs[j]
             curPos == IF now >= seg.endTime THEN acc.pos + seg.duration
                       ELSE IF now >= seg.startTime
                            THEN acc.pos + (now - seg.startTime)
                            ELSE acc.pos
         IN batchLoop_noOffset(segs, j + 1, now,
                               [pos |-> curPos, dur |-> acc.dur + seg.duration])

\* the loop of getBatchProgress over the segments from j on
RECURSIVE batchLoop(_, _, _, _)
batchLoop(segs, j, now, acc) ==
    IF j > Len(segs) THEN acc
    ELSE LET seg == segs[j]
             curPos == IF now >= seg.endTime THEN acc.pos + seg.duration
                       ELSE IF now >= seg.startTime
                            THEN acc.pos + seg.startOffset + (now - seg.startTime)
                            ELSE acc.pos
         IN batchLoop(segs, j + 1, now,
                      [pos |-> curPos, dur |-> acc.dur + seg.duration])

getBatchProgress(c, segs, now) ==
    IF c = "none" \/ Len(segs) = 0 THEN [pos |-> 0, dur |-> 0]
    ELSE batchLoop(segs, 1, now, [pos |-> 0, dur |-> 0])

\* "if (this.bufferCache.has(url)) return this.bufferCache.get(url)" returns
cacheHit(w, url) ==
    [w EXCEPT !.cacheEv.hit = @ \cup {url},
              !.cacheEv.order = w.cacheOrder,
              !.cacheEv.cache = w.bufferCache]

\* "await fetch(url)": loadDecodedBuffer suspends handler t at pc
fetch(w, t, pc, url) ==
    [w EXCEPT !.task[t].pc = pc, !.task[t].url = url, !.cacheEv.fetch = url]

\* Map.delete(key) on the keys of the Map in the order they were set
Delete(keys, key) == SelectSeq(keys, LAMBDA k : k # key)

\* the cache insertion at the end of loadDecodedBuffer.  resident is the keys of
\* the Map bufferCache in its own order, the order they became resident in (a set
\* of a key that is resident keeps its place); each eviction is logged with the
\* key, whether it was resident, and the oldest resident key at that moment.
RECURSIVE evict(_)
evict(w) ==
    IF Len(w.cacheOrder) > w.maxCached
    THEN LET key == Head(w.cacheOrder) IN
         evict([w EXCEPT !.bufferCache = @ \ {key},
                         !.cacheOrder = Tail(@),
                         !.resident = Delete(@, key),
                         !.cacheEv.evicted =
                            Append(@, [key |-> key,
                                       was |-> key \in w.bufferCache,
                                       oldest |-> IF w.resident = <<>> THEN 0
                                                  ELSE Head(w.resident)])])
    ELSE w

\* cacheInsert without the eviction loop
cacheInsert_noEvict(w, url) ==
    [w EXCEPT !.bufferCache = @ \cup {url}, !.cacheOrder = Append(@, url),
              !.resident = IF url \in w.bufferCache THEN @ ELSE Append(@, url),
              !.cacheEv.ins = url]

cacheInsert(w, url) ==
    evict([w EXCEPT !.bufferCache = @ \cup {url}, !.cacheOrder = Append(@, url),
                    !.resident = IF url \in w.bufferCache THEN @
                                 ELSE Append(@, url),
                    !.cacheEv.ins = url])

\* push of a segment that always ends a full duration after its start
push_fullLength(w, t, index, startTime, endTime, duration, startOffset) ==
    [w EXCEPT !.scheduled = Append(@, [index |-> index, startTime |-> startTime,
                                       endTime |-> startTime + duration,
                                       duration |-> duration,
                                       startOffset |-> startOffset,
                                       by |-> w.task[t].id])]

\* this.scheduled.push({ index, source, startTime, endTime, duration, startOffset })
\* (by: the handler that pushes it, history)
push(w, t, index, startTime, endTime, duration, startOffset) ==
    [w EXCEPT !.scheduled = Append(@, [index |-> index, startTime |-> startTime,
                                       endTime |-> endTime, duration |-> duration,
                                       startOffset |-> startOffset,
                                       by |-> w.task[t].id])]

\* the scheduling loop of rebuildBatchFrom: buffers back to back from time t
RECURSIVE scheduleBuffers(_, _, _, _)
scheduleBuffers(w, h, buffers, t) ==
    IF buffers = <<>> THEN w
    ELSE LET dur == Duration(Head(buffers).buffer) IN
         scheduleBuffers(push(w, h, Head(buffers).index, t, t + dur, dur, 0),
                         h, Tail(buffers), t + dur)

\* the setTimeout calls of scheduleMetadataUpdates for the segments from j on: one
\* for each segment that starts more than 50 ms after the audio clock, due on the
\* wall clock (w.wall, the time of the page in centiseconds) after that delay less
\* 50 ms; done is whether its callback has run
RECURSIVE armTimers(_, _)
armTimers(w, j) ==
    IF j > Len(w.scheduled) THEN w
    ELSE LET seg == w.scheduled[j]
             delay == (seg.startTime - w.clock) - MetadataLead
         IN IF delay <= 0 THEN armTimers(w, j + 1)
            ELSE armTimers([w EXCEPT !.metadataTimers =
                               Append(@, [index |-> seg.index,
                                          startTime |-> seg.startTime,
                                          by |-> seg.by,
                                          due |-> w.wall + delay,
                                          done |-> FALSE])], j + 1)

scheduleMetadataUpdates(w) ==
    LET w1 == [w EXCEPT !.metadataTimers = <<>>] IN
    IF w1.ctx = "none" \/ Len(w1.scheduled) = 0 THEN w1 ELSE armTimers(w1, 1)

\* rebuildBatchFrom from "const startAt" on: every buffer of the batch is decoded
rebuildSchedule(w, t) ==
    LET rec == w.task[t]
        startAt == w.clock + LeadTime
        w1 == [scheduleBuffers(w, t, rec.buffers, startAt)
                 EXCEPT !.idx = rec.startIndex,
                        !.isLoading = FALSE,
                        !.task[t].schedClock = w.clock]
    IN IF rec.autostart
       THEN IF w1.ctx = "suspended"
            THEN awaitCtl(w1, t, "rb_resume")
            ELSE finish(scheduleMetadataUpdates([w1 EXCEPT !.isPlaying = TRUE]),
                        t, "done")
       ELSE finish(scheduleMetadataUpdates([w1 EXCEPT !.isPlaying = FALSE]),
                   t, "done")

\* the decode loop of rebuildBatchFrom, up to its next fetch or to its end
RECURSIVE rebuildLoad(_, _)
rebuildLoad(w, t) ==
    LET rec == w.task[t]
        k == Len(rec.buffers) + 1
    IN IF k > Len(rec.indices) THEN rebuildSchedule(w, t)
       ELSE LET i == rec.indices[k] IN
            IF i + 1 \notin DOMAIN w.songs
            THEN finish(w, t, "fail")      \* this.songs[i] is undefined: TypeError
            ELSE LET url == w.songs[i + 1] IN
                 IF url \in w.bufferCache
                 THEN rebuildLoad(
                        [cacheHit(w, url) EXCEPT !.task[t].buffers =
                                     Append(@, [index |-> i, buffer |-> url])], t)
                 ELSE fetch(w, t, "rb_load", url)

\* rebuildBatchFrom with the indices not wrapped at the end of the playlist
rebuildBatchFrom_noWrap(w, t, startIndex, autostart, st) ==
    LET w1 == stopAllScheduled([ensureContext(w, st) EXCEPT !.isLoading = TRUE])
        n == Len(w1.songs)
        batchCount == Min(w1.batchSize, n)
        indices == [i \in 1..batchCount |-> Min(startIndex + (i - 1), n - 1)]
    IN rebuildLoad([w1 EXCEPT !.lastStarted = [id |-> w.task[t].id,
                                               index |-> startIndex],
                              !.task[t].startIndex = startIndex,
                              !.task[t].autostart = autostart,
                              !.task[t].indices = indices,
                              !.task[t].call = "rebuildBatchFrom"], t)

rebuildBatchFrom(w, t, startIndex, autostart, st) ==
    LET w1 == stopAllScheduled([ensureContext(w, st) EXCEPT !.isLoading = TRUE])
        n == Len(w1.songs)
        batchCount == Min(w1.batchSize, n)
        indices == [i \in 1..batchCount |-> (startIndex + (i - 1)) % n]
    IN rebuildLoad([w1 EXCEPT !.lastStarted = [id |-> w.task[t].id,
                                               index |-> startIndex],
                              !.task[t].startIndex = startIndex,
                              !.task[t].autostart = autostart,
                              !.task[t].indices = indices,
                              !.task[t].call = "rebuildBatchFrom"], t)

\* playRest that never rebuilds
playRest_noRebuild(w, t) == finish([w EXCEPT !.isPlaying = TRUE], t, "done")

\* play() after its awaits of ensureContext() and ctx.resume()
playRest(w, t) ==
    IF Len(w.scheduled) = 0
    THEN rebuildBatchFrom(w, t, w.idx, TRUE, w.ctx)
    ELSE finish([w EXCEPT !.isPlaying = TRUE], t, "done")

play(w, t, st) ==
    LET w1 == ensureContext(w, st) IN
    IF w1.ctx = "suspended" THEN awaitCtl(w1, t, "play_resume") ELSE playRest(w1, t)

pause(w, t) ==
    IF w.ctx = "none" THEN finish(w, t, "done")
    ELSE IF w.ctx = "running" THEN awaitCtl(w, t, "pause_suspend")
    ELSE finish([w EXCEPT !.isPlaying = FALSE], t, "done")

\* toggle that looks at the state of the context only, not at the playing flag
toggle_ctxOnly(w, t, st) ==
    IF w.ctx = "none" \/ w.ctx # "running"
    THEN play(w, t, st)
    ELSE pause(w, t)

toggle(w, t, st) ==
    IF w.ctx = "none" \/ w.ctx # "running" \/ ~w.isPlaying
    THEN play(w, t, st)
    ELSE pause(w, t)

next(w, t, st) ==
    LET w1 == [w EXCEPT !.idx = (w.idx + 1) % Len(w.songs)] IN
    rebuildBatchFrom(w1, t, w1.idx, w1.isPlaying \/ w1.ctx = "running", st)

prev(w, t, st) ==
    LET cur == getCurrent(w.ctx, w.scheduled, w.clock) IN
    IF cur # 0 /\ w.clock - w.scheduled[cur].startTime > PrevThreshold
    THEN rebuildBatchFrom(w, t, w.scheduled[cur].index, TRUE, st)
    ELSE LET w1 == [w EXCEPT !.idx = ((w.idx - 1) + Len(w.songs)) % Len(w.songs)] IN
         rebuildBatchFrom(w1, t, w1.idx, w1.isPlaying \/ w1.ctx = "running", st)

\* the end of seekTo, from "this.idx = songIdx" on
seekEnd(w, t) ==
    LET w1 == [w EXCEPT !.idx = w.task[t].songIdx] IN
    IF w1.isPlaying /\ w1.ctx = "suspended"
    THEN awaitCtl(w1, t, "sk_resume")
    ELSE finish(scheduleMetadataUpdates(w1), t, "done")

\* the "remaining batch slots" loop of seekTo, up to its next fetch or to its end
RECURSIVE seekSlots(_, _)
seekSlots(w, t) ==
    LET rec == w.task[t] IN
    IF rec.i > rec.slots THEN seekEnd(w, t)
    ELSE LET nextIdx == (rec.songIdx + rec.i) % Len(w.songs)
             url == w.songs[nextIdx + 1]
         IN IF url \in w.bufferCache
            THEN seekSlots([push(cacheHit(w, url), t, nextIdx, rec.t,
                                 rec.t + Duration(url), Duration(url), 0)
                              EXCEPT !.task[t].t = @ + Duration(url),
                                     !.task[t].i = @ + 1], t)
            ELSE [fetch(w, t, "sk_next", url) EXCEPT !.task[t].nextIdx = nextIdx]

\* seekSchedule with the target offset not clamped to the track
seekSchedule_noClamp(w, t) ==
    LET rec == w.task[t]
        trackDur == Duration(rec.url)
        offset == rec.positionSeconds
        startAt == w.clock + SeekLead
        remaining == trackDur - offset
        w1 == push(stopAllScheduled(w), t, rec.songIdx, startAt, startAt + remaining,
                   trackDur, offset)
        slots == Min(w.batchSize - 1, Len(w.songs) - 1)
    IN seekSlots([w1 EXCEPT !.task[t].offset = offset,
                            !.task[t].schedClock = w.clock,
                            !.task[t].t = startAt + remaining,
                            !.task[t].slots = slots,
                            !.task[t].i = 1], t)

\* seekTo from "const trackDur" on: the buffer of the current track is decoded
seekSchedule(w, t) ==
    LET rec == w.task[t]
        trackDur == Duration(rec.url)
        offset == Max(0, Min(rec.positionSeconds, trackDur - SeekEpsilon))
        startAt == w.clock + SeekLead
        remaining == trackDur - offset
        w1 == push(stopAllScheduled(w), t, rec.songIdx, startAt, startAt + remaining,
                   trackDur, offset)
        slots == Min(w.batchSize - 1, Len(w.songs) - 1)
    IN seekSlots([w1 EXCEPT !.task[t].offset = offset,
                            !.task[t].schedClock = w.clock,
                            !.task[t].t = startAt + remaining,
                            !.task[t].slots = slots,
                            !.task[t].i = 1], t)

seekTo(w, t, positionSeconds, st) ==
    LET w1 == [ensureContext(w, st) EXCEPT !.task[t].call = "seekTo",
                                           !.task[t].positionSeconds = positionSeconds]
    IN IF w1.isLoading THEN finish(w1, t, "ignored")
       ELSE LET cur == getCurrent(w1.ctx, w1.scheduled, w1.clock)
                songIdx == IF cur # 0 THEN w1.scheduled[cur].index ELSE w1.idx
                w2 == [w1 EXCEPT !.task[t].songIdx = songIdx,
                                 !.lastStarted = [id |-> w1.task[t].id,
                                                  index |-> songIdx]]
            IN IF songIdx + 1 \notin DOMAIN w2.songs
               THEN finish(w2, t, "fail")  \* this.songs[songIdx] is undefined
               ELSE LET url == w2.songs[songIdx + 1]
                        w3 == [w2 EXCEPT !.task[t].url = url]
                    IN IF url \in w3.bufferCache
                       THEN seekSchedule(cacheHit(w3, url), t)
                       ELSE fetch(w3, t, "sk_load", url)

\* seekRelative without its branch to next(): it seeks past the end of the track
seekRelative_noNext(w, t, deltaSeconds, st) ==
    LET p == getProgress(w.ctx, w.scheduled, w.clock, w.idx)
        newPos == p.pos + deltaSeconds
        w1 == [w EXCEPT !.task[t].deltaSeconds = deltaSeconds,
                        !.task[t].p = [pos |-> p.pos, dur |-> p.dur]]
    IN IF newPos < 0 THEN seekTo(w1, t, 0, st)
       ELSE seekTo(w1, t, newPos, st)

seekRelative(w, t, deltaSeconds, st) ==
    LET p == getProgress(w.ctx, w.scheduled, w.clock, w.idx)
        newPos == p.pos + deltaSeconds
        w1 == [w EXCEPT !.task[t].deltaSeconds = deltaSeconds,
                        !.task[t].p = [pos |-> p.pos, dur |-> p.dur]]
    IN IF newPos < 0 THEN seekTo(w1, t, 0, st)
       ELSE IF newPos >= p.dur THEN next(w1, t, st)
       ELSE seekTo(w1, t, newPos, st)

\* ---- UI handlers

\* ui.playlistSize "change": SONGS = buildSongs(n)
playlistSize(w, n) ==
    LET w1 == [w EXCEPT !.songs = buildSongs(n)]
        w2 == [w1 EXCEPT !.idx = Min(w1.idx, Len(w1.songs) - 1)]
    IN [stopAllScheduled(w2) EXCEPT !.isPlaying = FALSE]

\* applyBatchSize that leaves the batch size of the player as it is
applyBatchSize_keep(w, val) == w

\* applyBatchSize(val)
applyBatchSize(w, val) == [w EXCEPT !.batchSize = val]

\* ---- steps

\* new BatchScheduledPlayer(SONGS)
Constructed ==
    /\ idx = 0
    /\ ctx = "none"
    /\ clock = 0
    /\ isPlaying = FALSE
    /\ isLoading = FALSE
    /\ batchSize = DefaultBatchSize
    /\ scheduled = <<>>
    /\ bufferCache = {}
    /\ cacheOrder = <<>>
    /\ maxCached = DefaultMaxCached
    /\ task = [t \in Tasks |-> IdleTask]
    /\ ctl = <<>>
    /\ ev = NoEv
    /\ ops = 0
    /\ lastStarted = [id |-> 0, index |-> 0]
    /\ resident = <<>>
    /\ cacheEv = NoCacheEv
    /\ view = NoView
    /\ replaced = FALSE
    /\ wall = 0
    /\ metadataTimers = <<>>
    /\ timerEv = NoTimerEv

Init ==
    /\ songs \in {buildSongs(n) : n \in 1..MaxSongs}
    /\ Constructed

CtxStates == {"suspended", "running"}

\* btnPlay "click"
Toggle(t) ==
    \E st \in CtxStates : FreeSlot(t) /\ Apply(toggle(Begin(t, "toggle"), t, st))

\* the media session handlers "play" and "pause", set by ensureContext
Play(t) ==
    /\ ctx # "none"
    /\ FreeSlot(t)
    /\ Apply(play(Begin(t, "play"), t, ctx))

Pause(t) ==
    /\ ctx # "none"
    /\ FreeSlot(t)
    /\ Apply(pause(Begin(t, "pause"), t))

\* btnNext "click", media session "nexttrack"
Next_(t) ==
    \E st \in CtxStates : FreeSlot(t) /\ Apply(next(Begin(t, "next"), t, st))

\* btnPrev "click", media session "previoustrack"
Prev(t) ==
    \E st \in CtxStates : FreeSlot(t) /\ Apply(prev(Begin(t, "prev"), t, st))

\* btnSeekBack / btnSeekFwd "click"
SeekRelative(t) ==
    \E st \in CtxStates, d \in {-SeekStep, SeekStep} :
        FreeSlot(t) /\ Apply(seekRelative(Begin(t, "seekRelative"), t, d, st))

\* progressTrack "pointerup" at ratio 0, 1/2 or 1 of the bar
PointerUp(t) ==
    LET dur == getProgress(ctx, scheduled, clock, idx).dur IN
    /\ dur > 0
    /\ FreeSlot(t)
    /\ \E pos \in {0, dur \div 2, dur} :
         Apply(seekTo(Begin(t, "seekTo"), t, pos, ctx))

\* a "click" on item i of the list
ListClickAt(t, i) ==
    \E st \in CtxStates :
        /\ FreeSlot(t)
        /\ Apply(rebuildBatchFrom([Begin(t, "listClick") EXCEPT !.idx = i],
                                  t, i, TRUE, st))

\* a list item "click"
ListClick(t) == \E i \in 0..(Len(songs) - 1) : ListClickAt(t, i)

\* btnReseed "click"
Reseed(t) ==
    \E st \in CtxStates :
        /\ FreeSlot(t)
        /\ Apply(rebuildBatchFrom(Begin(t, "reseed"), t, idx, isPlaying, st))

\* a synchronous UI handler has run: what it found and what it was
sync(w, op) ==
    [Disturb(w, 0) EXCEPT !.ops = @ + 1,
                       !.replaced = (op = "playlistSize"),
                       !.ev = [kind |-> "done",
                               rec |-> [IdleTask EXCEPT !.op = op, !.pre = Snapshot]]]

\* a batch button "click" or batchCustom "change", with a batch scheduled
BatchSizeRebuild(t) ==
    \E val \in (1..MaxBatch) \cup {Infinity} :
        /\ FreeSlot(t)
        /\ ctx # "none" /\ Len(scheduled) > 0
        /\ Apply(rebuildBatchFrom(
                   applyBatchSize([Disturb(Begin(t, "batchSize"), t)
                                     EXCEPT !.task[t].val = val], val),
                   t, idx, isPlaying, ctx))

\* a batch button "click" or batchCustom "change", with no batch scheduled
BatchSizeSet ==
    \E val \in (1..MaxBatch) \cup {Infinity} :
        /\ ops < MaxOps
        /\ ~(ctx # "none" /\ Len(scheduled) > 0)
        /\ Apply([sync(applyBatchSize(Cur, val), "batchSize")
                    EXCEPT !.ev.rec.val = val])

PlaylistSizeChange ==
    \E n \in 1..Min(MaxSongs, MaxPlaylist) :
        /\ ops < MaxOps
        /\ Apply(sync(playlistSize(Cur, n), "playlistSize"))

\* the fetch and decode of handler t succeed: loadDecodedBuffer returns
FetchOk(t) ==
    LET rec == task[t]
        w1 == cacheInsert(Cur, rec.url)
    IN \/ /\ rec.pc = "rb_load"
          /\ Apply(rebuildLoad(
                [w1 EXCEPT !.task[t].pc = "run",
                           !.task[t].buffers =
                              Append(@, [index |-> rec.indices[Len(rec.buffers) + 1],
                                         buffer |-> rec.url])], t))
       \/ /\ rec.pc = "sk_load"
          /\ Apply(seekSchedule([w1 EXCEPT !.task[t].pc = "run"], t))
       \/ /\ rec.pc = "sk_next"
          /\ Apply(seekSlots(
                [push(w1, t, rec.nextIdx, rec.t, rec.t + Duration(rec.url),
                      Duration(rec.url), 0)
                   EXCEPT !.task[t].pc = "run",
                          !.task[t].t = @ + Duration(rec.url),
                          !.task[t].i = @ + 1], t))

\* the fetch or the decode of handler t fails: loadDecodedBuffer throws
FetchFail(t) ==
    /\ task[t].pc \in {"rb_load", "sk_load", "sk_next"}
    /\ Apply(finish(Cur, t, "fail"))

\* the oldest queued ctx.resume() / ctx.suspend() takes effect and its promise resolves
CtlDone ==
    /\ ctl # <<>>
    /\ LET t == Head(ctl)
           w1 == [Cur EXCEPT !.ctl = Tail(@), !.task[t].pc = "run"]
           resumed == [w1 EXCEPT !.ctx = "running"]
       IN \/ /\ task[t].pc = "rb_resume"
             /\ Apply(finish(scheduleMetadataUpdates(
                                [resumed EXCEPT !.isPlaying = TRUE]), t, "done"))
          \/ /\ task[t].pc = "sk_resume"
             /\ Apply(finish(scheduleMetadataUpdates(resumed), t, "done"))
          \/ /\ task[t].pc = "play_resume"
             /\ Apply(playRest(resumed, t))
          \/ /\ task[t].pc = "pause_suspend"
             /\ Apply(finish([w1 EXCEPT !.ctx = "suspended", !.isPlaying = FALSE],
                             t, "done"))

\* the audio clock advances while the context is running: it is read again 3.5 s
\* later, or at the next start or end of a scheduled segment
Tick ==
    /\ ctx = "running"
    /\ \E now \in {clock + 350}
                  \cup {scheduled[j].startTime : j \in 1..Len(scheduled)}
                  \cup {scheduled[j].endTime : j \in 1..Len(scheduled)} :
         /\ now > clock
         /\ now <= MaxClock
         /\ Apply([Cur EXCEPT !.clock = now, !.wall = @ + (now - clock)])

\* the timers that are armed: set and not yet run
Armed == {j \in 1..Len(metadataTimers) : ~metadataTimers[j].done}

\* time passes while the audio clock stands still (no context, or suspended): up to
\* the moment the next timer is due
WallTick ==
    /\ ctx # "running"
    /\ \E j \in Armed :
         /\ metadataTimers[j].due > wall
         /\ metadataTimers[j].due <= MaxClock
         /\ \A h \in Armed : metadataTimers[h].due > wall
                                => metadataTimers[h].due >= metadataTimers[j].due
         /\ Apply([Cur EXCEPT !.wall = metadataTimers[j].due])

\* the callback of timer j runs, at its time or later:
\* player.updateNowPlayingMetadata(index)
TimerFire ==
    \E j \in Armed :
        /\ wall >= metadataTimers[j].due
        /\ Apply([Cur EXCEPT !.metadataTimers[j].done = TRUE,
                              !.timerEv = [fired |-> TRUE,
                                           announced |->
                                              metadataTimers[j].index + 1
                                                 \in DOMAIN songs,
                                           index |-> metadataTimers[j].index,
                                           startTime |-> metadataTimers[j].startTime,
                                           by |-> metadataTimers[j].by,
                                           clock |-> clock]])

Next ==
    \/ \E t \in Tasks : Toggle(t)
    \/ \E t \in Tasks : Play(t)
    \/ \E t \in Tasks : Pause(t)
    \/ \E t \in Tasks : Next_(t)
    \/ \E t \in Tasks : Prev(t)
    \/ \E t \in Tasks : SeekRelative(t)
    \/ \E t \in Tasks : PointerUp(t)
    \/ \E t \in Tasks : ListClick(t)
    \/ \E t \in Tasks : Reseed(t)
    \/ \E t \in Tasks : BatchSizeRebuild(t)
    \/ BatchSizeSet
    \/ PlaylistSizeChange
    \/ \E t \in Tasks : FetchOk(t)
    \/ \E t \in Tasks : FetchFail(t)
    \/ CtlDone
    \/ Tick
    \/ WallTick
    \/ TimerFire

Spec == Init /\ [][Next]_vars

\* ---- the player when every fetch and decode succeeds: the Play and seek buttons,
\* the fetches and the control messages of the context, which the platform
\* completes in the end

LiveNext ==
    \/ \E t \in Tasks : Toggle(t)
    \/ \E t \in Tasks : SeekRelative(t)
    \/ \E t \in Tasks : FetchOk(t)
    \/ CtlDone
    \/ Tick

\* the handlers suspended in loadDecodedBuffer, at its fetch and decode
Fetching == {t \in Tasks : task[t].pc \in {"rb_load", "sk_load", "sk_next"}}

\* the fetch and decode that handler t waits for settle in the end. This is
\* WF_vars(FetchOk(t)) written out: FetchOk(t) is enabled exactly when t is in
\* Fetching, and each of its steps changes task[t]
FetchSettles(t) == []<>(t \notin Fetching) \/ []<><<FetchOk(t)>>_vars

LiveSpec ==
    /\ Init
    /\ [][LiveNext]_vars
    /\ \A t \in Tasks : FetchSettles(t)
    /\ WF_vars(CtlDone)

\* ---- the derived queries, on batches of files of any decoded length

\* render(): the progress of the current track and of the batch, as drawn
Render ==
    LET cur == getCurrent(ctx, scheduled, clock)
        p == getProgress(ctx, scheduled, clock, idx)
        bp == getBatchProgress(ctx, scheduled, clock)
    IN /\ Quiet
       /\ Apply([Cur EXCEPT !.view = [ratio |-> p.ratio, pos |-> p.pos,
                                      dur |-> p.dur,
                                      index |-> IF cur # 0 THEN scheduled[cur].index
                                                ELSE idx,
                                      batchPos |-> bp.pos, batchDur |-> bp.dur,
                                      drawn |-> TRUE]])

\* buffer.duration of the decoded files: none, 2 s, 4 s or 6 s
QueryDurations == {0, 200, 400, 600}

\* the batch that a rebuild (offset 0, at the clock + LeadTime) or a seek (at the
\* clock + SeekLead) leaves for files of the durations ds, scheduled at clock 0
QueryBatch(ds, offset, lead) ==
    [j \in 1..Len(ds) |->
        LET startTime == IF j = 1 THEN lead
                         ELSE lead + ds[1] - offset
                              + (IF j = 3 THEN ds[2] ELSE 0)
        IN [index |-> j - 1, startTime |-> startTime,
            endTime |-> startTime + ds[j] - (IF j = 1 THEN offset ELSE 0),
            duration |-> ds[j], startOffset |-> IF j = 1 THEN offset ELSE 0,
            by |-> 1]]

QueryInit ==
    \E len \in 0..MaxQueryLen :
    \E ds \in [1..len -> QueryDurations] :
    \E seek \in BOOLEAN :
    \E p \in {0, 100, 700} :
        LET offset == IF seek /\ len > 0
                      THEN Max(0, Min(p, ds[1] - SeekEpsilon)) ELSE 0
        IN /\ songs = buildSongs(Max(1, len))
           /\ idx = 0
           /\ ctx \in (IF len = 0 THEN {"none"} ELSE {}) \cup CtxStates
           /\ clock = 0
           /\ isPlaying = (len > 0 /\ ctx = "running")
           /\ isLoading = FALSE
           /\ batchSize = DefaultBatchSize
           /\ scheduled = QueryBatch(ds, offset, IF seek THEN SeekLead ELSE LeadTime)
           /\ bufferCache = 1..len
           /\ cacheOrder = [j \in 1..len |-> j]
           /\ maxCached = DefaultMaxCached
           /\ task = [t \in Tasks |-> IdleTask]
           /\ ctl = <<>>
           /\ ev = NoEv
           /\ ops = 0
           /\ lastStarted = [id |-> 0, index |-> 0]
           /\ resident = [j \in 1..len |-> j]
           /\ cacheEv = NoCacheEv
           /\ view = NoView
           /\ replaced = FALSE
           /\ wall = 0
           /\ metadataTimers = <<>>
           /\ timerEv = NoTimerEv

QueryNext ==
    \/ Tick
    \/ Render

QuerySpec == QueryInit /\ [][QueryNext]_vars

\* ---- the cache under load: a playlist of more files than the cache holds, and
\* the handlers that load batches of it (list clicks, seeks) with their fetches

\* the list items clicked: the first, and the first past a batch from it
CacheClicks == {0, DefaultBatchSize}

CacheInit ==
    /\ songs = buildSongs(MaxCacheSongs)
    /\ Constructed

CacheNext ==
    \/ \E t \in Tasks, i \in CacheClicks : ListClickAt(t, i)
    \/ \E t \in Tasks : SeekRelative(t)
    \/ \E t \in Tasks : FetchOk(t)
    \/ \E t \in Tasks : FetchFail(t)
    \/ CtlDone

CacheSpec == CacheInit /\ [][CacheNext]_vars

\* ---- properties

Contiguous(segs) ==
    \A i \in 1..(Len(segs) - 1) : segs[i].endTime = segs[i + 1].startTime

\* a rebuildBatchFrom(s) with s in the playlist has just returned, having run alone
RebuildAlone ==
    /\ ev.kind = "done"
    /\ ev.rec.call = "rebuildBatchFrom"
    /\ ev.rec.solo
    /\ ev.rec.startIndex < Len(songs)

\* C1: a rebuildBatchFrom(s) that runs alone and whose decodes all succeed leaves
\* exactly min(batchSize, n) segments, of the tracks s, s+1, ... mod n, each with
\* startOffset 0, each ending where the next starts, and the cursor idx = s.
C1_RebuildBatch ==
    RebuildAlone =>
        LET s == ev.rec.startIndex
            n == Len(songs)
        IN /\ Len(scheduled) = (IF batchSize = Infinity \/ batchSize > n
                                THEN n ELSE batchSize)
           /\ \A i \in 1..Len(scheduled) :
                 /\ scheduled[i].index = (s + (i - 1)) % n
                 /\ scheduled[i].startOffset = 0
           /\ Contiguous(scheduled)
           /\ idx = s

\* a rebuild from the last track of a two-track playlist, unbounded batch: it wraps
C1_Witness ==
    /\ RebuildAlone
    /\ batchSize = Infinity
    /\ ev.rec.startIndex = 1
    /\ Len(scheduled) = 2


\* C2: when a rebuild or seek starts while an earlier one is suspended, then once
\* both have finished the batch holds only the segments of the one that started
\* last, at most min(batchSize, n) of them, and the cursor is its start index.
C2_LastStartedWins ==
    (/\ ev.kind = "done"
     /\ ev.rec.call \in {"rebuildBatchFrom", "seekTo"}
     /\ ~ev.rec.solo
     /\ ev.rec.steady
     /\ Quiet)
    => /\ Len(scheduled) <= Min(batchSize, Len(songs))
       /\ \A i \in 1..Len(scheduled) : scheduled[i].by = lastStarted.id
       /\ idx = lastStarted.index

\* C3: in every reachable state each segment ends where the next one starts and
\* the next one is the next track of the playlist, modulo its length.
C3_BatchContiguous ==
    /\ Contiguous(scheduled)
    /\ \A i \in 1..(Len(scheduled) - 1) :
          scheduled[i + 1].index = (scheduled[i].index + 1) % Len(songs)

\* C4: after a rebuildBatchFrom in which a fetch or decode failed, the batch is
\* empty and the playing flag is false.
C4_FailedRebuildIdle ==
    (ev.kind = "fail" /\ ev.rec.call = "rebuildBatchFrom" /\ ev.rec.solo)
    => (scheduled = <<>> /\ ~isPlaying)

\* C5: after a seekTo in which a fetch or decode failed, the batch is the previous
\* batch, unchanged, or empty.
C5_FailedSeekNoPartialBatch ==
    (ev.kind = "fail" /\ ev.rec.call = "seekTo" /\ ev.rec.solo)
    => (scheduled = ev.rec.pre.scheduled \/ scheduled = <<>>)

\* a seekTo has just returned after scheduling, having run alone
SeekAlone == ev.kind = "done" /\ ev.rec.call = "seekTo" /\ ev.rec.solo

\* the batch is the one a seekTo(positionSeconds) on track c makes, count segments long
SeekLeaves(rec, positionSeconds, count) ==
    LET c == rec.songIdx
        n == Len(songs)
        D == Duration(songs[c + 1])
        offset == Max(0, Min(positionSeconds, D - SeekEpsilon))
    IN /\ Len(scheduled) = count
       /\ scheduled[1].index = c
       /\ scheduled[1].duration = D
       /\ scheduled[1].startOffset = offset
       /\ scheduled[1].endTime - scheduled[1].startTime = D - offset
       /\ scheduled[1].startTime = rec.schedClock + SeekLead
       /\ \A i \in 2..Len(scheduled) :
             /\ scheduled[i].index = (c + (i - 1)) % n
             /\ scheduled[i].startOffset = 0
             /\ scheduled[i].duration = Duration(songs[scheduled[i].index + 1])
             /\ scheduled[i].endTime = scheduled[i].startTime + scheduled[i].duration
       /\ Contiguous(scheduled)
       /\ idx = c

\* C6 as stated: a successful seekTo(p) on track c of duration D leaves a first
\* segment of track c with startOffset clamp(p, 0, D - epsilon), of length
\* D - startOffset, starting a small lead after the clock, followed by
\* batchSize - 1 whole tracks c+1, c+2, ... mod n, and the cursor at c.
C6_SeekBatch_AsStated ==
    SeekAlone => SeekLeaves(ev.rec, ev.rec.positionSeconds, batchSize)

\* C6 amended: ... followed by min(batchSize, n) - 1 whole tracks ...
C6_SeekBatch ==
    SeekAlone =>
        SeekLeaves(ev.rec, ev.rec.positionSeconds,
                   IF batchSize = Infinity \/ batchSize > Len(songs)
                   THEN Len(songs) ELSE batchSize)

\* a seek into the middle of a track, with one more track behind it
C6_Witness ==
    /\ SeekAlone
    /\ Len(scheduled) = 2
    /\ scheduled[1].startOffset > 0
    /\ ev.rec.positionSeconds = scheduled[1].startOffset

\* the segments of segs whose [startTime, endTime) contains now
Containing(segs, now) ==
    {j \in 1..Len(segs) : segs[j].startTime <= now /\ now < segs[j].endTime}

\* C7: seekTo retargets the track of the segment that contains the clock, and the
\* track at the cursor when no segment contains it.
C7_SeekTarget ==
    (ev.kind \in {"done", "fail"} /\ ev.rec.call = "seekTo" /\ ev.rec.solo)
    => LET pre == ev.rec.pre
           in == Containing(pre.scheduled, pre.clock)
       IN ev.rec.songIdx =
            IF pre.ctx # "none" /\ in # {}
            THEN pre.scheduled[CHOOSE j \in in : \A h \in in : j <= h].index
            ELSE pre.idx

\* C8: a successful seekTo leaves the playing flag as it was, and the clock
\* running if and only if it was running.
C8_SeekKeepsPlayState ==
    SeekAlone =>
        /\ isPlaying = ev.rec.pre.isPlaying
        /\ (ctx = "running") <=> (ev.rec.pre.ctx = "running")

\* the handlers that are in flight or have just finished
Records == {ev.rec} \cup {task[t] : t \in Tasks}

\* the batch is the one a rebuildBatchFrom(s) makes
RebuildLeaves(s) ==
    /\ Len(scheduled) = (IF batchSize = Infinity \/ batchSize > Len(songs)
                         THEN Len(songs) ELSE batchSize)
    /\ \A i \in 1..Len(scheduled) :
          /\ scheduled[i].index = (s + (i - 1)) % Len(songs)
          /\ scheduled[i].startOffset = 0
    /\ Contiguous(scheduled)
    /\ idx = s

\* C9: with (pos, dur) the progress when seekRelative(d) is called, it does what
\* seekTo(0) does if pos + d < 0, what next() does if pos + d >= dur, and what
\* seekTo(pos + d) does otherwise: it makes that call, from whatever state it is
\* called in, and when it runs alone it leaves the state that call leaves.
C9_SeekRelative ==
    \A rec \in Records :
        rec.op = "seekRelative" =>
            LET newPos == rec.p.pos + rec.deltaSeconds
                target == IF newPos < 0 THEN 0 ELSE newPos
            IN /\ rec.solo =>
                     rec.p = [x \in {"pos", "dur"} |->
                                getProgress(rec.pre.ctx, rec.pre.scheduled,
                                            rec.pre.clock, rec.pre.idx)[x]]
               /\ IF newPos >= 0 /\ newPos >= rec.p.dur
                  THEN /\ rec.call = "rebuildBatchFrom"
                       /\ (rec = ev.rec /\ ev.kind = "done" /\ rec.solo)
                            => /\ RebuildLeaves((rec.pre.idx + 1) % Len(songs))
                               /\ isPlaying = (rec.pre.isPlaying
                                                \/ rec.pre.ctx = "running")
                  ELSE /\ rec.call = "seekTo"
                       /\ rec.positionSeconds = target
                       /\ (rec = ev.rec /\ ev.kind = "done" /\ rec.solo)
                            => /\ SeekLeaves(rec, target,
                                     IF batchSize = Infinity \/ batchSize > Len(songs)
                                     THEN Len(songs) ELSE batchSize)
                               /\ isPlaying = rec.pre.isPlaying

\* a seekRelative(+5 s) near the end of a playing track has gone to the next track
C9_Witness ==
    /\ ev.kind = "done"
    /\ ev.rec.op = "seekRelative"
    /\ ev.rec.solo
    /\ ev.rec.p.dur > 0
    /\ ev.rec.p.pos + ev.rec.deltaSeconds >= ev.rec.p.dur
    /\ scheduled # <<>>

\* C10: prev() with more than 3 s elapsed since the start of the current segment
\* starts the new batch at the track of that segment, from 0; otherwise the cursor
\* moves back one (mod n), the new batch starts there, and that is the track just
\* before the current track.
C10_PrevThreshold ==
    (ev.kind = "done" /\ ev.rec.op = "prev" /\ ev.rec.solo)
    => LET pre == ev.rec.pre
           n == Len(songs)
           cur == getCurrent(pre.ctx, pre.scheduled, pre.clock)
       IN IF cur # 0 /\ pre.clock - pre.scheduled[cur].startTime > PrevThreshold
          THEN /\ scheduled[1].index = pre.scheduled[cur].index
               /\ scheduled[1].startOffset = 0
          ELSE /\ idx = ((pre.idx - 1) + n) % n
               /\ scheduled[1].index = idx
               /\ scheduled[1].startOffset = 0
               /\ Containing(pre.scheduled, pre.clock) # {}
                    => idx = ((pre.scheduled[cur].index - 1) + n) % n

\* a next() has just returned, having run alone
NextAlone == ev.kind = "done" /\ ev.rec.op = "next" /\ ev.rec.solo

\* C11: next() sets the cursor to (cursor + 1) mod n and rebuilds the batch from
\* there, every segment with startOffset 0 (one segment when n = 1); if the playing
\* flag was set it is set afterwards, and if it was not set it is not set afterwards
\* and the clock does not run.
C11_NextKeepsPlayState ==
    NextAlone =>
        /\ RebuildLeaves((ev.rec.pre.idx + 1) % Len(songs))
        /\ ev.rec.pre.isPlaying => isPlaying
        /\ ~ev.rec.pre.isPlaying => (~isPlaying /\ ctx # "running")

\* C12: in every reachable state the cache holds at most maxCached entries, in the
\* Map bufferCache and in the insertion-order list cacheOrder, whatever loads are
\* requested and however they overlap.
C12_CacheBounded ==
    /\ Cardinality(bufferCache) <= maxCached
    /\ Len(cacheOrder) <= maxCached

\* a ninth distinct key has been inserted and the first one has left the cache
C12_Witness ==
    /\ cacheEv.ins # 0
    /\ cacheEv.evicted # <<>>
    /\ Cardinality(bufferCache) = maxCached
    /\ Len(cacheOrder) = maxCached

\* C13: when an insertion evicts a key, that key is the resident key that was
\* inserted earliest, whatever keys were read since; a cache hit leaves the
\* insertion-order list and the stored buffers as they are.
C13_EvictionFIFO ==
    /\ \A j \in 1..Len(cacheEv.evicted) :
          cacheEv.evicted[j].was => cacheEv.evicted[j].key = cacheEv.evicted[j].oldest
    /\ cacheEv.hit # {} =>
          /\ cacheOrder = cacheEv.order
          /\ bufferCache = cacheEv.cache
          /\ cacheEv.hit \subseteq bufferCache

\* a fetch is started only for a key that is not cached
FetchOnlyUncached == cacheEv.fetch # 0 => cacheEv.fetch \notin bufferCache

\* C14: no two fetch/decode requests for the same key are outstanding at the same
\* time, and no fetch/decode is started for a key that is cached, also when two
\* suspended operations request the same key.
C14_NoDuplicateFetch ==
    /\ \A t \in Fetching, u \in Fetching : t # u => task[t].url # task[u].url
    /\ FetchOnlyUncached

\* a / b <= c / d and a / b = c / d for fractions with b, d > 0
FracLeq(x, y) == x.num * y.den <= y.num * x.den

FracEq(x, y) == x.num * y.den = y.num * x.den

\* C15: the track progress is a ratio in [0, 1] for every clock value and batch
\* (clock before the first segment, past the last, no batch, files of duration 0),
\* and when the clock is at the start of the current segment the ratio is
\* startOffset / duration (0 for a file of duration 0).
C15_ProgressRatio ==
    LET cur == getCurrent(ctx, scheduled, clock)
        ratio == getProgress(ctx, scheduled, clock, idx).ratio
        zero == [num |-> 0, den |-> 1]
        one == [num |-> 1, den |-> 1]
    IN /\ ratio.den > 0
       /\ FracLeq(zero, ratio)
       /\ FracLeq(ratio, one)
       /\ view.drawn => (FracLeq(zero, view.ratio) /\ FracLeq(view.ratio, one))
       /\ (cur # 0 /\ clock = scheduled[cur].startTime) =>
             IF scheduled[cur].duration > 0
             THEN FracEq(ratio, [num |-> scheduled[cur].startOffset,
                                 den |-> scheduled[cur].duration])
             ELSE FracEq(ratio, zero)

\* the clock is at the start of a segment that a seek made, drawn with its offset
C15_Witness ==
    LET cur == getCurrent(ctx, scheduled, clock) IN
    /\ cur # 0
    /\ clock = scheduled[cur].startTime
    /\ scheduled[cur].startOffset > 0
    /\ view.drawn
    /\ view.ratio.num = scheduled[cur].startOffset

\* the sum of a sequence of numbers
RECURSIVE SumSeq(_)
SumSeq(q) == IF q = <<>> THEN 0 ELSE Head(q) + SumSeq(Tail(q))

\* C16: the batch progress has dur = the sum of the full durations of the segments
\* and pos = the full durations of the segments the clock has passed, plus
\* startOffset + (clock - startTime) for the segment that contains the clock, plus
\* nothing for the segments that have not started; hence 0 <= pos <= dur.
C16_BatchProgress ==
    LET bp == getBatchProgress(ctx, scheduled, clock)
        full == [j \in 1..Len(scheduled) |-> scheduled[j].duration]
        past == [j \in 1..Len(scheduled) |->
                    IF clock >= scheduled[j].endTime THEN scheduled[j].duration
                    ELSE 0]
        part == [j \in 1..Len(scheduled) |->
                    IF scheduled[j].startTime <= clock /\ clock < scheduled[j].endTime
                    THEN scheduled[j].startOffset + (clock - scheduled[j].startTime)
                    ELSE 0]
    IN /\ bp.dur = SumSeq(full)
       /\ bp.pos = SumSeq(past) + SumSeq(part)
       /\ 0 <= bp.pos
       /\ bp.pos <= bp.dur
       /\ view.drawn => (0 <= view.batchPos /\ view.batchPos <= view.batchDur)

\* the clock is in the second of two segments, the first of them made by a seek
C16_Witness ==
    /\ Len(scheduled) = 2
    /\ scheduled[1].startOffset > 0
    /\ scheduled[2].startTime <= clock
    /\ clock < scheduled[2].endTime
    /\ view.drawn
    /\ view.batchPos = scheduled[1].duration + (clock - scheduled[2].startTime)

\* C17: getCurrent() returns the segment whose [startTime, endTime) contains the
\* clock; it returns the last segment only when the clock is past the end of the
\* batch; it returns nothing when the batch is empty or there is no clock.
C17_CurrentSegment ==
    LET cur == getCurrent(ctx, scheduled, clock)
        in == Containing(scheduled, clock)
    IN IF ctx = "none" \/ scheduled = <<>> THEN cur = 0
       ELSE IF in # {} THEN cur \in in
       ELSE /\ cur = Len(scheduled)
            /\ clock >= scheduled[Len(scheduled)].endTime

\* a toggle() has just returned, having run alone
ToggleAlone == ev.kind = "done" /\ ev.rec.op = "toggle" /\ ev.rec.solo

\* C18: toggle() ends paused (flag false, clock suspended) exactly when the clock
\* was running and the flag was set when it was called, and ends playing (flag
\* true, clock running) otherwise; when it ends playing and no batch was scheduled
\* it has done rebuildBatchFrom(cursor, autostart) and the batch starts at the
\* cursor.
C18_Toggle ==
    ToggleAlone =>
        LET pre == ev.rec.pre IN
        IF pre.ctx = "running" /\ pre.isPlaying
        THEN ~isPlaying /\ ctx = "suspended"
        ELSE /\ isPlaying
             /\ ctx = "running"
             /\ IF pre.scheduled = <<>>
                THEN /\ ev.rec.call = "rebuildBatchFrom"
                     /\ ev.rec.startIndex = pre.idx
                     /\ ev.rec.autostart
                     /\ RebuildLeaves(pre.idx)
                ELSE ev.rec.call = "none" /\ scheduled = pre.scheduled

\* a toggle() has paused a playing batch
C18_Witness ==
    /\ ToggleAlone
    /\ ev.rec.pre.isPlaying
    /\ ev.rec.pre.ctx = "running"
    /\ scheduled # <<>>
    /\ ctx = "suspended"

\* C19: a replacement of the playlist by one of length m leaves the batch empty,
\* the playing flag false and the cursor at min(old cursor, m - 1), and batch and
\* flag stay so until the next user operation starts, also when a rebuild or a
\* seek was in flight at the replacement.
C19_PlaylistReplaceStops ==
    /\ (ev.kind = "done" /\ ev.rec.op = "playlistSize") =>
          idx = Min(ev.rec.pre.idx, Len(songs) - 1)
    /\ replaced => (scheduled = <<>> /\ ~isPlaying)

\* a batch-size handler has just returned, having run alone
BatchSizeAlone == ev.kind = "done" /\ ev.rec.op = "batchSize" /\ ev.rec.solo

\* C20: a change of the batch size to b' with a batch active rebuilds from the
\* cursor: afterwards the batch has min(b', n) segments and the playing flag and
\* the clock are as before; with no batch active it changes the configured batch
\* size only, and a schedule made later has min(b', n) segments.
C20_BatchSizeChange ==
    /\ BatchSizeAlone =>
          LET pre == ev.rec.pre
              active == pre.ctx # "none" /\ pre.scheduled # <<>>
          IN /\ batchSize = ev.rec.val
             /\ isPlaying = pre.isPlaying
             /\ (ctx = "running") <=> (pre.ctx = "running")
             /\ IF active
                THEN /\ ev.rec.call = "rebuildBatchFrom"
                     /\ ev.rec.startIndex = pre.idx
                     /\ RebuildLeaves(pre.idx)
                     /\ Len(scheduled) = Min(ev.rec.val, Len(songs))
                ELSE /\ ev.rec.call = "none"
                     /\ scheduled = pre.scheduled
                     /\ idx = pre.idx
                     /\ ctx = pre.ctx
                     /\ songs = pre.songs
    /\ (RebuildAlone \/ SeekAlone) => Len(scheduled) = Min(batchSize, Len(songs))

\* the batch size was set to 1 under a batch of two tracks: one segment is left
C20_Witness ==
    /\ BatchSizeAlone
    /\ ev.rec.call = "rebuildBatchFrom"
    /\ Len(ev.rec.pre.scheduled) = 2
    /\ ev.rec.val = 1
    /\ Len(scheduled) = 1

\* timer k was armed for segment j of the batch
TimerOf(k, j) ==
    /\ metadataTimers[k].index = scheduled[j].index
    /\ metadataTimers[k].startTime = scheduled[j].startTime
    /\ metadataTimers[k].by = scheduled[j].by

\* after a successful rebuildBatchFrom or seekTo the timers armed are exactly one
\* for each segment of the batch that starts more than 50 ms after the clock
TimersRearmed ==
    (ev.kind = "done" /\ ev.rec.call \in {"rebuildBatchFrom", "seekTo"}) =>
        LET late == {j \in 1..Len(scheduled) :
                        scheduled[j].startTime - clock > MetadataLead}
        IN /\ Armed = 1..Len(metadataTimers)
           /\ Len(metadataTimers) = Cardinality(late)
           /\ \A j \in late : Cardinality({k \in Armed : TimerOf(k, j)}) = 1

\* C21: after a successful rebuildBatchFrom or seekTo the timers of earlier batches
\* are cancelled and one timer is armed for each segment of the new batch that
\* starts more than 50 ms after the clock; and in every reachable state every
\* armed timer is the timer of a segment of the current batch.
C21_TimersFollowBatch ==
    /\ TimersRearmed
    /\ \A k \in Armed : \E j \in 1..Len(scheduled) : TimerOf(k, j)

\* C23: when the callback of the timer of segment S runs and announces the track
\* of S, the audio clock is at S.startTime - 50 ms or later.
C23_TimerNotEarly ==
    (timerEv.fired /\ timerEv.announced) =>
        timerEv.clock >= timerEv.startTime - MetadataLead

\* the segments of segs before segs[j] that the same handler pushed
PushedBefore(segs, j) == {h \in 1..(j - 1) : segs[h].by = segs[j].by}

\* every segment of the batch has the length of its track less its startOffset, an
\* offset within the track, and an offset only if it is the first segment that a
\* seekTo pushed
SegmentsWellFormed ==
    /\ \A j \in 1..Len(scheduled) :
          /\ scheduled[j].endTime
                = scheduled[j].startTime
                  + (scheduled[j].duration - scheduled[j].startOffset)
          /\ 0 <= scheduled[j].startOffset
          /\ scheduled[j].startOffset < scheduled[j].duration
          /\ scheduled[j].startOffset # 0 => PushedBefore(scheduled, j) = {}
    /\ \A rec \in Records :
          rec.call = "rebuildBatchFrom" =>
             \A j \in 1..Len(scheduled) :
                scheduled[j].by = rec.id => scheduled[j].startOffset = 0

\* a step leaves every segment that stays in the batch as it was
SegmentsKept ==
    \A j \in 1..Len(scheduled) : \A h \in 1..Len(scheduled') :
        (/\ scheduled'[h].by = scheduled[j].by
         /\ Cardinality(PushedBefore(scheduled', h))
              = Cardinality(PushedBefore(scheduled, j)))
        => scheduled'[h] = scheduled[j]

Reported == <<IF getCurrent(ctx, scheduled, clock) = 0 THEN -1
              ELSE scheduled[getCurrent(ctx, scheduled, clock)].index,
              getProgress(ctx, scheduled, clock, idx).index>>

\* C24: after a successful rebuildBatchFrom(s), getCurrent() and getProgress()
\* report track s from its completion until the clock reaches the end of the first
\* segment, the lead time before the first segment starts included, whether the
\* clock runs or not, for every batch size.
C24_ReportsStartTrack ==
    /\ RebuildAlone => Reported = <<ev.rec.startIndex, ev.rec.startIndex>>
    /\ (/\ Quiet
        /\ scheduled # <<>>
        /\ \A j \in 1..Len(scheduled) :
              scheduled[j].by = lastStarted.id /\ scheduled[j].startOffset = 0
        /\ scheduled[1].index = lastStarted.index
        /\ clock < scheduled[1].endTime)
       => Reported = <<scheduled[1].index, scheduled[1].index>>

\* the handlers that are executing rebuildBatchFrom
Rebuilding == {t \in Tasks : ~Idle(t) /\ task[t].call = "rebuildBatchFrom"}

\* C26: isLoading is true only while a rebuildBatchFrom is in flight; when none is
\* executing, after it completed or failed, isLoading is false.
C26_LoadingOnlyInFlight == isLoading => Rebuilding # {}

\* C27: in every reachable state the cursor idx and the track index of every
\* segment are within 0 .. n - 1, n the length of the playlist.
C27_IndicesInRange ==
    /\ 0 <= idx
    /\ idx < Len(songs)
    /\ \A j \in 1..Len(scheduled) :
          0 <= scheduled[j].index /\ scheduled[j].index < Len(songs)

\* C28: when no handler is in flight and the batch is not empty, the playing flag
\* is true if and only if the clock is running.
C28_FlagAgreesWithClock ==
    (Quiet /\ scheduled # <<>>) => (isPlaying <=> ctx = "running")

\* C29: wherever a rebuildBatchFrom or seekTo that runs alone is suspended at an
\* await, the batch is the batch it found, or empty, or a complete batch of
\* min(batchSize, n) segments.
C29_BatchAtomic ==
    \A t \in Tasks :
        (~Idle(t) /\ task[t].call \in {"rebuildBatchFrom", "seekTo"} /\ task[t].solo)
        => \/ scheduled = <<>>
           \/ scheduled = task[t].pre.scheduled
           \/ Len(scheduled) = Min(batchSize, Len(songs))

\* the first handler is a toggle(), called on the idle player, and is in flight
FirstToggle == \E t \in Tasks : ~Idle(t) /\ task[t].op = "toggle" /\ task[t].id = 1

\* the player is playing the batch from the cursor
Playing ==
    /\ Quiet
    /\ isPlaying
    /\ ctx = "running"
    /\ ~isLoading
    /\ RebuildLeaves(0)

\* C25: from the idle player (no context, no batch), when every fetch and decode
\* succeeds in the end and no other operation is issued, toggle() leads to the
\* playing flag true, the clock running, a batch of min(batchSize, n) segments
\* from the cursor, and the loading flag false.
C25_PlayReaches == (FirstToggle /\ ops = 1) ~> (Playing \/ ops > 1)

\* the toggle() on the idle player has returned and the batch plays
C25_Witness ==
    /\ ev.kind = "done"
    /\ ev.rec.op = "toggle"
    /\ ev.rec.id = 1
    /\ ops = 1
    /\ Playing
    /\ Len(scheduled) = 2

====
